---- MODULE Spec2Model ----
(***************************************************************************)
(* URL shortener (src/main.py): the two SQLite relations URLs and          *)
(* AccessLogs, the wall clock, and the five HTTP handlers, each run by a   *)
(* request worker of the server's thread pool.  A handler is cut into      *)
(* steps at the points where another request can interleave: before each   *)
(* committed INSERT and before the return of the response.  The clock      *)
(* reads of one step (the expiry test and the accessed_at of the INSERT    *)
(* prepared next) see the same time.                                       *)
(***************************************************************************)
EXTENDS Integers, Sequences, FiniteSets, TLC

\* ------------------------------------------------------------------ bounds
\* The clock runs over 0..MaxTime (one unit = one hour).
MaxTime == 1
\* The server accepts at most MaxRequests requests in a run.
MaxRequests == 2

\* ------------------------------------------------------- optional values
\* Python's None and a present value x.
None == <<>>
Some(x) == <<x>>
\* Python truthiness of an Optional[str]: None and "" are falsy.
Truthy(opt) == opt # None /\ opt[1] # ""

\* ------------------------------------------------------------ input sets
\* The request workers of the server's thread pool.
Workers == {1, 2}
URLS == {"http://a.example/", "http://b.example/", "http://c.example/"}
ClientHosts == {"10.0.0.1"}
\* expiry_hours of the request body: absent, or an integer.
ExpiryInputs == {None, Some(-1), Some(0)}
\* password of the shorten body: absent, empty, or a real password.
ShortenPasswords == {None, Some(""), Some("p1")}
\* password form field of the two validate endpoints (required field).
FormPasswords == {"p1", "p2"}
\* X-Password header of GET /analytics/{short_url}: absent, empty, or a value.
HeaderPasswords == {None, Some(""), Some("p1"), Some("p2")}
\* salts werkzeug's gen_salt may draw.
Salts == {1}

\* ------------------------------------------------------- code generator
\* Width of the short code: hexdigest()[:8].
PrefixLen == 8
\* sha256(...).hexdigest(), on a digest of 10 hex digits instead of 64.  The
\* first two URLs agree on the first 8 digits and differ after them.
sha256_hexdigest(original_url) ==
    CASE original_url = "http://a.example/" ->
             <<"3", "a", "7", "b", "d", "3", "e", "2", "3", "6">>
      [] original_url = "http://b.example/" ->
             <<"3", "a", "7", "b", "d", "3", "e", "2", "f", "1">>
      [] OTHER ->
             <<"9", "f", "8", "6", "d", "0", "8", "1", "8", "8">>
generate_short_url(original_url) ==
    SubSeq(sha256_hexdigest(original_url), 1, PrefixLen)
\* A code no URL of URLS maps to.
UnknownCode == <<"0", "0", "0", "0", "0", "0", "0", "0">>
ShortCodes == {generate_short_url(u) : u \in URLS} \cup {UnknownCode}

\* ----------------------------------------------------- password hashing
PwNum(password) ==
    CASE password = "" -> 0
      [] password = "p1" -> 1
      [] password = "p2" -> 2
      [] OTHER -> 3
\* werkzeug's salted one-way digest of a password.
hash_internal(salt, password) == (salt * 7 + PwNum(password) * 3 + 5) % 31
\* generate_password_hash: "method$salt$hash".
generate_password_hash(password, salt) ==
    [method |-> "scrypt", salt |-> salt, hashval |-> hash_internal(salt, password)]
\* check_password_hash(pwhash, password): pwhash.split("$") on None raises
\* AttributeError; otherwise the digest of password under the stored salt is
\* compared with the stored digest.
check_password_hash(pwhash, password) ==
    IF pwhash = None THEN "AttributeError"
    ELSE IF hash_internal(pwhash[1].salt, password) = pwhash[1].hashval
         THEN "True" ELSE "False"

\* ------------------------------------------------------------- responses
DefaultExpiryHours == 24
SentinelIp == "Validated Access"
Response(kind, status, location, body) ==
    [kind |-> kind, status |-> status, location |-> location, body |-> body]
\* raise HTTPException(status_code=...)
HTTPException(kind, status) == Response(kind, status, "", None)
\* An exception no handler catches: the server answers 500.
InternalServerError == Response("InternalServerError", 500, "", None)

\* ----------------------------------------------------------------- state
VARIABLES
    URLs,        \* the URLs relation, in id order
    AccessLogs,  \* the AccessLogs relation, in id order
    now,         \* datetime.now()
    pc,          \* each worker's position in its handler
    req,         \* each worker's request: endpoint and parameters
    local,       \* each worker's local variables
    resp,        \* each worker's response, once returned
    accepted     \* number of requests accepted so far
vars == <<URLs, AccessLogs, now, pc, req, local, resp, accepted>>

NoReq ==
    [op |-> "none", short_url |-> None, original_url |-> "", password |-> None,
     host |-> ""]
NoLocal ==
    [expires_at |-> 0, hashed_password |-> None, url_entry |-> None,
     accessed_at |-> 0]

Init ==
    /\ URLs = <<>>
    /\ AccessLogs = <<>>
    /\ now = 0
    /\ pc = [w \in Workers |-> "idle"]
    /\ req = [w \in Workers |-> NoReq]
    /\ local = [w \in Workers |-> NoLocal]
    /\ resp = [w \in Workers |-> None]
    /\ accepted = 0

\* ----------------------------------------------------------------- store
\* SELECT * FROM URLs WHERE short_url = ? ; fetchone()
select_url(table, short_url) ==
    IF \E i \in 1..Len(table) : table[i].short_url = short_url
    THEN Some(table[CHOOSE i \in 1..Len(table) : table[i].short_url = short_url])
    ELSE None
\* insert_url on a column that is not declared UNIQUE.
insert_url_no_unique(table, row) ==
    [ok |-> TRUE, table |-> Append(table, [row EXCEPT !.id = Len(table) + 1])]
\* insert_url as INSERT OR REPLACE: a row with the same short_url is replaced.
insert_url_or_replace(table, row) ==
    IF \E i \in 1..Len(table) : table[i].short_url = row.short_url
    THEN [ok |-> TRUE,
          table |-> [i \in 1..Len(table) |->
                        IF table[i].short_url = row.short_url
                        THEN [row EXCEPT !.id = table[i].id]
                        ELSE table[i]]]
    ELSE [ok |-> TRUE,
          table |-> Append(table, [row EXCEPT !.id = Len(table) + 1])]
\* insert_url as an upsert: a row with the same short_url takes the new
\* expires_at.
insert_url_refresh_expiry(table, row) ==
    IF \E i \in 1..Len(table) : table[i].short_url = row.short_url
    THEN [ok |-> TRUE,
          table |-> [i \in 1..Len(table) |->
                        IF table[i].short_url = row.short_url
                        THEN [table[i] EXCEPT !.expires_at = row.expires_at]
                        ELSE table[i]]]
    ELSE [ok |-> TRUE,
          table |-> Append(table, [row EXCEPT !.id = Len(table) + 1])]
\* INSERT INTO URLs under short_url TEXT NOT NULL UNIQUE: the row is appended
\* with the next id, or sqlite3.IntegrityError is raised and nothing changes.
insert_url(table, row) ==
    IF \E i \in 1..Len(table) : table[i].short_url = row.short_url
    THEN [ok |-> FALSE, table |-> table]
    ELSE [ok |-> TRUE,
          table |-> Append(table, [row EXCEPT !.id = Len(table) + 1])]
\* INSERT INTO AccessLogs (short_url, accessed_at, ip_address)
insert_log(table, short_url, accessed_at, ip_address) ==
    Append(table, [short_url |-> short_url, accessed_at |-> accessed_at,
                   ip_address |-> ip_address])
\* SELECT accessed_at, ip_address FROM AccessLogs WHERE short_url = ?
select_logs(table, short_url) ==
    LET F[i \in 0..Len(table)] ==
            IF i = 0 THEN <<>>
            ELSE IF table[i].short_url = short_url
                 THEN Append(F[i - 1], [accessed_at |-> table[i].accessed_at,
                                        ip_address |-> table[i].ip_address])
                 ELSE F[i - 1]
    IN F[Len(table)]

\* ----------------------------------------------------------------- clock
Tick ==
    /\ now < MaxTime
    /\ now' = now + 1
    /\ UNCHANGED <<URLs, AccessLogs, pc, req, local, resp, accepted>>

\* The next request goes to an idle worker: the lowest-numbered one, the
\* workers being interchangeable.
Accept(w) ==
    /\ pc[w] = "idle"
    /\ \A v \in Workers : pc[v] = "idle" => w <= v
    /\ accepted < MaxRequests
    /\ accepted' = accepted + 1

\* --------------------------------------------------------- POST /shorten
\* URLRequest.expiry_hours: Optional[int] = 24
URLRequest_expiry_hours(input) ==
    IF input = None THEN DefaultExpiryHours ELSE input[1]

\* Lines 73-78: the code, expires_at and the password hash are computed.
shorten_url_begin(w) ==
    /\ Accept(w)
    /\ \E u \in URLS, eh \in ExpiryInputs, p \in ShortenPasswords,
          h \in ClientHosts, s \in Salts :
         /\ req' = [req EXCEPT ![w] =
                [op |-> "shorten", short_url |-> Some(generate_short_url(u)),
                 original_url |-> u, password |-> p, host |-> h]]
         /\ local' = [local EXCEPT ![w] =
                [NoLocal EXCEPT
                   !.expires_at = now + URLRequest_expiry_hours(eh),
                   !.hashed_password =
                       IF Truthy(p) THEN Some(generate_password_hash(p[1], s))
                       ELSE None]]
    /\ pc' = [pc EXCEPT ![w] = "shorten_insert"]
    /\ UNCHANGED <<URLs, AccessLogs, now, resp>>

\* The response body of shorten_url: the host-qualified short URL.
short_url_body(host, short_url) == Some([host |-> host, short_url |-> short_url])

\* shorten_url_insert without the except clause: IntegrityError escapes.
shorten_url_insert_uncaught(w) ==
    /\ pc[w] = "shorten_insert"
    /\ LET r == insert_url(URLs,
                  [id |-> 0, original_url |-> req[w].original_url,
                   short_url |-> req[w].short_url[1], created_at |-> now,
                   expires_at |-> local[w].expires_at,
                   password |-> local[w].hashed_password])
       IN /\ URLs' = r.table
          /\ resp' = [resp EXCEPT ![w] =
                 IF r.ok
                 THEN Some(Response("ShortUrl", 200, "",
                          short_url_body(req[w].host, req[w].short_url[1])))
                 ELSE Some(InternalServerError)]
    /\ pc' = [pc EXCEPT ![w] = "responded"]
    /\ local' = [local EXCEPT ![w] = NoLocal]
    /\ UNCHANGED <<AccessLogs, now, req, accepted>>

\* Lines 80-93: INSERT and commit, IntegrityError swallowed, the short URL
\* returned either way.
shorten_url_insert(w) ==
    /\ pc[w] = "shorten_insert"
    /\ LET r == insert_url(URLs,
                  [id |-> 0, original_url |-> req[w].original_url,
                   short_url |-> req[w].short_url[1], created_at |-> now,
                   expires_at |-> local[w].expires_at,
                   password |-> local[w].hashed_password])
       IN URLs' = r.table
    /\ resp' = [resp EXCEPT ![w] =
           Some(Response("ShortUrl", 200, "",
                         short_url_body(req[w].host, req[w].short_url[1])))]
    /\ pc' = [pc EXCEPT ![w] = "responded"]
    /\ local' = [local EXCEPT ![w] = NoLocal]
    /\ UNCHANGED <<AccessLogs, now, req, accepted>>

\* ---------------------------------------------------- GET /{short_url}
\* Line 107: datetime.fromisoformat(url_entry["expires_at"]) < datetime.now()
is_expired(url_entry, t) == url_entry.expires_at < t

\* redirect_decision with the password test placed before the expiry test.
redirect_decision_password_first(url_entry, t) ==
    IF url_entry = None THEN "NotFound"
    ELSE IF url_entry[1].password # None THEN "PasswordChallenge"
    ELSE IF is_expired(url_entry[1], t) THEN "Expired"
    ELSE "Log"

\* redirect_decision without the password test.
redirect_decision_no_password_test(url_entry, t) ==
    IF url_entry = None THEN "NotFound"
    ELSE IF is_expired(url_entry[1], t) THEN "Expired"
    ELSE "Log"

\* redirect_decision without the 404 test: a missing row goes on to the INSERT.
redirect_decision_no_not_found(url_entry, t) ==
    IF url_entry = None THEN "Log"
    ELSE IF is_expired(url_entry[1], t) THEN "Expired"
    ELSE IF url_entry[1].password # None THEN "PasswordChallenge"
    ELSE "Log"

\* Lines 103-125: what redirect_to_url does with the row it fetched at time t.
redirect_decision(url_entry, t) ==
    IF url_entry = None THEN "NotFound"
    ELSE IF is_expired(url_entry[1], t) THEN "Expired"
    ELSE IF url_entry[1].password # None THEN "PasswordChallenge"
    ELSE "Log"

\* Lines 97-125 and the parameters of the INSERT of line 130: the row is
\* fetched; 404, 410 or the password form is answered; otherwise accessed_at
\* is read from the clock.
redirect_to_url_lookup(w) ==
    /\ Accept(w)
    /\ \E c \in ShortCodes, h \in ClientHosts :
         LET url_entry == select_url(URLs, c)
             d == redirect_decision(url_entry, now)
         IN /\ req' = [req EXCEPT ![w] =
                   [NoReq EXCEPT !.op = "redirect", !.short_url = Some(c),
                                 !.host = h]]
            /\ IF d = "Log"
               THEN /\ local' = [local EXCEPT ![w] =
                           [NoLocal EXCEPT !.url_entry = url_entry,
                                           !.accessed_at = now]]
                    /\ pc' = [pc EXCEPT ![w] = "redirect_insert"]
                    /\ UNCHANGED resp
               ELSE /\ resp' = [resp EXCEPT ![w] = Some(
                           CASE d = "NotFound" -> HTTPException("NotFound", 404)
                             [] d = "Expired" -> HTTPException("Expired", 410)
                             [] OTHER -> Response("PasswordChallenge", 200, "", None))]
                    /\ pc' = [pc EXCEPT ![w] = "responded"]
                    /\ UNCHANGED local
    /\ UNCHANGED <<URLs, AccessLogs, now>>

\* redirect_to_url_insert with the INSERT left out.
redirect_to_url_insert_skipped(w) ==
    /\ pc[w] = "redirect_insert"
    /\ pc' = [pc EXCEPT ![w] = "redirect_return"]
    /\ UNCHANGED <<URLs, AccessLogs, now, req, local, resp, accepted>>

\* Lines 128-132: INSERT INTO AccessLogs with the caller's address; commit.
redirect_to_url_insert(w) ==
    /\ pc[w] = "redirect_insert"
    /\ AccessLogs' = insert_log(AccessLogs, req[w].short_url[1],
                                local[w].accessed_at, req[w].host)
    /\ pc' = [pc EXCEPT ![w] = "redirect_return"]
    /\ UNCHANGED <<URLs, now, req, local, resp, accepted>>

\* Line 136: RedirectResponse(url=url_entry["original_url"])
redirect_to_url_return(w) ==
    /\ pc[w] = "redirect_return"
    /\ resp' = [resp EXCEPT ![w] =
           Some(Response("Redirect", 307, local[w].url_entry[1].original_url, None))]
    /\ pc' = [pc EXCEPT ![w] = "responded"]
    /\ local' = [local EXCEPT ![w] = NoLocal]
    /\ UNCHANGED <<URLs, AccessLogs, now, req, accepted>>

\* --------------------------------------------- POST /{short_url}/validate
\* validate_decision with the result of check_password_hash not negated.
validate_decision_not_negated(url_entry, password) ==
    IF url_entry = None THEN "NotFound"
    ELSE LET ok == check_password_hash(url_entry[1].password, password)
         IN IF ok = "AttributeError" THEN "InternalServerError"
            ELSE IF ok = "True" THEN "Forbidden"
            ELSE "Pass"

\* validate_decision with the expiry test of redirect_to_url added.
validate_decision_expiry_tested(url_entry, password) ==
    IF url_entry = None THEN "NotFound"
    ELSE IF is_expired(url_entry[1], now) THEN "Expired"
    ELSE LET ok == check_password_hash(url_entry[1].password, password)
         IN IF ok = "AttributeError" THEN "InternalServerError"
            ELSE IF ok = "False" THEN "Forbidden"
            ELSE "Pass"

\* Lines 146-152: what validate_password and validate_analytics_password do
\* with the row they fetched and the submitted password.
validate_decision(url_entry, password) ==
    IF url_entry = None THEN "NotFound"
    ELSE LET ok == check_password_hash(url_entry[1].password, password)
         IN IF ok = "AttributeError" THEN "InternalServerError"
            ELSE IF ok = "False" THEN "Forbidden"
            ELSE "Pass"

\* The answer to a request that validate_decision turns away.
validate_refusal(d) ==
    CASE d = "NotFound" -> HTTPException("NotFound", 404)
      [] d = "Forbidden" -> HTTPException("Forbidden", 403)
      [] OTHER -> InternalServerError

\* validate_password logging the caller's address.
validate_password_ip_caller(host) == host

\* The ip_address validate_password logs (line 157).
validate_password_ip(host) == SentinelIp

\* Lines 140-152 and the parameters of the INSERT of line 157.
validate_password_lookup(w) ==
    /\ Accept(w)
    /\ \E c \in ShortCodes, p \in FormPasswords, h \in ClientHosts :
         LET url_entry == select_url(URLs, c)
             d == validate_decision(url_entry, p)
         IN /\ req' = [req EXCEPT ![w] =
                   [NoReq EXCEPT !.op = "validate", !.short_url = Some(c),
                                 !.password = Some(p), !.host = h]]
            /\ IF d = "Pass"
               THEN /\ local' = [local EXCEPT ![w] =
                           [NoLocal EXCEPT !.url_entry = url_entry,
                                           !.accessed_at = now]]
                    /\ pc' = [pc EXCEPT ![w] = "validate_insert"]
                    /\ UNCHANGED resp
               ELSE /\ resp' = [resp EXCEPT ![w] = Some(validate_refusal(d))]
                    /\ pc' = [pc EXCEPT ![w] = "responded"]
                    /\ UNCHANGED local
    /\ UNCHANGED <<URLs, AccessLogs, now>>

\* validate_password_insert that also clears the stored password of the row.
validate_password_insert_unlocking(w) ==
    /\ pc[w] = "validate_insert"
    /\ AccessLogs' = insert_log(AccessLogs, req[w].short_url[1],
                                local[w].accessed_at,
                                validate_password_ip(req[w].host))
    /\ URLs' = [i \in 1..Len(URLs) |->
                  IF URLs[i].short_url = req[w].short_url[1]
                  THEN [URLs[i] EXCEPT !.password = None]
                  ELSE URLs[i]]
    /\ pc' = [pc EXCEPT ![w] = "validate_return"]
    /\ UNCHANGED <<now, req, local, resp, accepted>>

\* Lines 154-159: INSERT INTO AccessLogs; commit.
validate_password_insert(w) ==
    /\ pc[w] = "validate_insert"
    /\ AccessLogs' = insert_log(AccessLogs, req[w].short_url[1],
                                local[w].accessed_at,
                                validate_password_ip(req[w].host))
    /\ pc' = [pc EXCEPT ![w] = "validate_return"]
    /\ UNCHANGED <<URLs, now, req, local, resp, accepted>>

\* Lines 162-179: the page that redirects to original_url.
validate_password_return(w) ==
    /\ pc[w] = "validate_return"
    /\ resp' = [resp EXCEPT ![w] =
           Some(Response("Redirect", 200, local[w].url_entry[1].original_url, None))]
    /\ pc' = [pc EXCEPT ![w] = "responded"]
    /\ local' = [local EXCEPT ![w] = NoLocal]
    /\ UNCHANGED <<URLs, AccessLogs, now, req, accepted>>

\* ------------------------------------------------------------- analytics
\* analytics_data of lines 200-207 and 267-274.
analytics_data(host, url_entry, logs) ==
    [short_url |-> [host |-> host, short_url |-> url_entry.short_url],
     original_url |-> url_entry.original_url,
     created_at |-> url_entry.created_at,
     expires_at |-> url_entry.expires_at,
     access_count |-> Len(logs),
     access_logs |-> logs]

\* validate_analytics_password with the INSERT of validate_password.
validate_analytics_password_logs_insert(table, short_url, t) ==
    insert_log(table, short_url, t, SentinelIp)

\* The AccessLogs relation after validate_analytics_password (it has no INSERT).
validate_analytics_password_logs(table, short_url, t) == table

\* POST /analytics/{short_url}/validate, lines 183-229.
validate_analytics_password(w) ==
    /\ Accept(w)
    /\ \E c \in ShortCodes, p \in FormPasswords, h \in ClientHosts :
         LET url_entry == select_url(URLs, c)
             d == validate_decision(url_entry, p)
         IN /\ req' = [req EXCEPT ![w] =
                   [NoReq EXCEPT !.op = "analytics_validate", !.short_url = Some(c),
                                 !.password = Some(p), !.host = h]]
            /\ IF d = "Pass"
               THEN /\ AccessLogs' = validate_analytics_password_logs(AccessLogs, c, now)
                    /\ resp' = [resp EXCEPT ![w] = Some(
                           Response("Report", 200, "",
                               Some(analytics_data(h, url_entry[1],
                                                   select_logs(AccessLogs, c)))))]
               ELSE /\ resp' = [resp EXCEPT ![w] = Some(validate_refusal(d))]
                    /\ UNCHANGED AccessLogs
    /\ pc' = [pc EXCEPT ![w] = "responded"]
    /\ UNCHANGED <<URLs, now, local>>

\* get_analytics_decision without the check of the supplied credential.
get_analytics_decision_unchecked(url_entry, x_password) ==
    IF url_entry = None THEN "NotFound"
    ELSE IF url_entry[1].password # None
         THEN IF ~Truthy(x_password) THEN "PasswordChallenge" ELSE "Report"
         ELSE "Report"

\* Lines 239-262: what get_analytics does with the row it fetched and the
\* X-Password header.
get_analytics_decision(url_entry, x_password) ==
    IF url_entry = None THEN "NotFound"
    ELSE IF url_entry[1].password # None
         THEN IF ~Truthy(x_password) THEN "PasswordChallenge"
              ELSE IF check_password_hash(url_entry[1].password, x_password[1]) # "True"
                   THEN "Forbidden"
                   ELSE "Report"
         ELSE "Report"

\* get_analytics with the INSERT of validate_password.
get_analytics_logs_insert(table, short_url, t) ==
    insert_log(table, short_url, t, SentinelIp)

\* The AccessLogs relation after get_analytics (it has no INSERT).
get_analytics_logs(table, short_url, t) == table

\* GET /analytics/{short_url}, lines 233-296.
get_analytics(w) ==
    /\ Accept(w)
    /\ \E c \in ShortCodes, x \in HeaderPasswords, h \in ClientHosts :
         LET url_entry == select_url(URLs, c)
             d == get_analytics_decision(url_entry, x)
         IN /\ req' = [req EXCEPT ![w] =
                   [NoReq EXCEPT !.op = "analytics", !.short_url = Some(c),
                                 !.password = x, !.host = h]]
            /\ AccessLogs' = get_analytics_logs(AccessLogs, c, now)
            /\ resp' = [resp EXCEPT ![w] = Some(
                   CASE d = "NotFound" -> HTTPException("NotFound", 404)
                     [] d = "Forbidden" -> HTTPException("Forbidden", 403)
                     [] d = "PasswordChallenge" ->
                            Response("PasswordChallenge", 200, "", None)
                     [] OTHER ->
                            Response("Report", 200, "",
                                Some(analytics_data(h, url_entry[1],
                                                    select_logs(AccessLogs, c)))))]
    /\ pc' = [pc EXCEPT ![w] = "responded"]
    /\ UNCHANGED <<URLs, now, local>>

\* ------------------------------------------------------- end of a request
Finish(w) ==
    /\ pc[w] = "responded"
    /\ pc' = [pc EXCEPT ![w] = "idle"]
    /\ req' = [req EXCEPT ![w] = NoReq]
    /\ local' = [local EXCEPT ![w] = NoLocal]
    /\ resp' = [resp EXCEPT ![w] = None]
    /\ UNCHANGED <<URLs, AccessLogs, now, accepted>>

Next ==
    \/ Tick
    \/ \E w \in Workers : shorten_url_begin(w)
    \/ \E w \in Workers : shorten_url_insert(w)
    \/ \E w \in Workers : redirect_to_url_lookup(w)
    \/ \E w \in Workers : redirect_to_url_insert(w)
    \/ \E w \in Workers : redirect_to_url_return(w)
    \/ \E w \in Workers : validate_password_lookup(w)
    \/ \E w \in Workers : validate_password_insert(w)
    \/ \E w \in Workers : validate_password_return(w)
    \/ \E w \in Workers : validate_analytics_password(w)
    \/ \E w \in Workers : get_analytics(w)
    \/ \E w \in Workers : Finish(w)

Spec == Init /\ [][Next]_vars

\* ------------------------------------------- start over a kept database
\* The row shorten_url stores in an empty URLs relation for original_url u,
\* expiry_hours eh and password p, served at time t with salt s.
stored_row(u, eh, p, s, t) ==
    [id |-> 1, original_url |-> u, short_url |-> generate_short_url(u),
     created_at |-> t, expires_at |-> t + URLRequest_expiry_hours(eh),
     password |-> IF Truthy(p) THEN Some(generate_password_hash(p[1], s))
                  ELSE None]
\* Rows an earlier run of the server stored at time 0: an open link, a
\* password-protected link, and a link shortened with expiry_hours = -1.
SeedRows ==
    {stored_row("http://a.example/", None, None, 1, 0),
     stored_row("http://a.example/", None, Some("p1"), 1, 0),
     stored_row("http://a.example/", Some(-1), None, 1, 0)}
\* init_db creates the tables only if they do not exist: the server starts
\* over the database file an earlier run left, here with one stored link.
InitStored ==
    /\ URLs \in {<<r>> : r \in SeedRows}
    /\ AccessLogs = <<>>
    /\ now = 0
    /\ pc = [w \in Workers |-> "idle"]
    /\ req = [w \in Workers |-> NoReq]
    /\ local = [w \in Workers |-> NoLocal]
    /\ resp = [w \in Workers |-> None]
    /\ accepted = 0
SpecStored == InitStored /\ [][Next]_vars

\* ================================================================ claims
\* The stored row a request's short code denotes, if any.
LinkOf(w) == select_url(URLs, req[w].short_url[1])
\* The row the request accepted in this step will fetch.
FetchedBy(w) == select_url(URLs, req'[w].short_url[1])
\* Worker w accepts a request for endpoint op in this step.
Accepts(w, op) == pc[w] = "idle" /\ req'[w].op = op
\* Worker w has answered a request for endpoint op.
Answered(w, op) == pc[w] = "responded" /\ req[w].op = op
\* The rows of URLs with a given short code.
RowsWithCode(c) == {i \in 1..Len(URLs) : URLs[i].short_url = c}
\* The supplied password verifies against the stored hash.
Matches(url_entry, password) ==
    check_password_hash(url_entry.password, password) = "True"

C2_ExpiredNeverRedirects ==
    [][\A w \in Workers :
          (Accepts(w, "redirect") /\ FetchedBy(w) # None
             /\ FetchedBy(w)[1].expires_at < now)
          => /\ pc'[w] = "responded"
             /\ resp'[w] = Some(HTTPException("Expired", 410))
             /\ AccessLogs' = AccessLogs]_vars
\* Resolve has answered Expired for a password-protected row.
C2_Witness ==
    \E w \in Workers :
        /\ Answered(w, "redirect")
        /\ resp[w][1].kind = "Expired"
        /\ LinkOf(w) # None /\ LinkOf(w)[1].password # None

\* C3: when Resolve fetches a password-protected row that has not expired, it
\* answers PasswordChallenge in that step, AccessLogs is unchanged and the
\* answer does not carry the row's original_url.
C3_ProtectedGetsChallenge ==
    [][\A w \in Workers :
          (Accepts(w, "redirect") /\ FetchedBy(w) # None
             /\ ~(FetchedBy(w)[1].expires_at < now)
             /\ FetchedBy(w)[1].password # None)
          => /\ pc'[w] = "responded"
             /\ resp'[w][1].kind = "PasswordChallenge"
             /\ resp'[w][1].location # FetchedBy(w)[1].original_url
             /\ resp'[w][1].body = None
             /\ AccessLogs' = AccessLogs]_vars
\* Resolve has answered PasswordChallenge for a protected row not yet expired.
C3_Witness ==
    \E w \in Workers :
        /\ Answered(w, "redirect")
        /\ resp[w][1].kind = "PasswordChallenge"
        /\ LinkOf(w) # None /\ LinkOf(w)[1].password # None
        /\ LinkOf(w)[1].expires_at >= now

\* The steps of POST /{short_url}/validate with the correct password on a
\* protected row: the lookup passes without writing, the insert appends one
\* row for the code with the given ip_address, the return answers
\* Redirect(original_url) without writing.
DirectValidateSteps(w, ip_address) ==
    /\ (Accepts(w, "validate") /\ FetchedBy(w) # None
          /\ FetchedBy(w)[1].password # None
          /\ Matches(FetchedBy(w)[1], req'[w].password[1]))
       => /\ pc'[w] = "validate_insert"
          /\ AccessLogs' = AccessLogs
    /\ (pc[w] = "validate_insert" /\ pc'[w] # pc[w])
       => /\ pc'[w] = "validate_return"
          /\ AccessLogs' = Append(AccessLogs,
                 [short_url |-> req[w].short_url[1],
                  accessed_at |-> local[w].accessed_at,
                  ip_address |-> ip_address])
    /\ (pc[w] = "validate_return" /\ pc'[w] # pc[w])
       => /\ resp'[w] = Some(Response("Redirect", 200,
                                      LinkOf(w)[1].original_url, None))
          /\ AccessLogs' = AccessLogs

AnalyticsValidatePasses(w) ==
    /\ Accepts(w, "analytics_validate")
    /\ FetchedBy(w) # None
    /\ FetchedBy(w)[1].password # None
    /\ Matches(FetchedBy(w)[1], req'[w].password[1])
\* The answer is the Report of the fetched row over the rows logged for it
\* before the call.
AnswersReport(w) ==
    /\ pc'[w] = "responded"
    /\ resp'[w][1].kind = "Report"
    /\ resp'[w][1].body[1].original_url = FetchedBy(w)[1].original_url
    /\ resp'[w][1].body[1].access_count
         = Cardinality({i \in 1..Len(AccessLogs) :
                          AccessLogs[i].short_url = req'[w].short_url[1]})

C6_WrongPasswordForbidden ==
    [][\A w \in Workers :
          ((Accepts(w, "validate") \/ Accepts(w, "analytics_validate"))
             /\ FetchedBy(w) # None
             /\ FetchedBy(w)[1].password # None
             /\ ~Matches(FetchedBy(w)[1], req'[w].password[1]))
          => /\ pc'[w] = "responded"
             /\ resp'[w] = Some(HTTPException("Forbidden", 403))
             /\ URLs' = URLs
             /\ AccessLogs' = AccessLogs]_vars
\* Analytics validate has answered Forbidden for a protected row and a
\* password that does not match.
C6_Witness ==
    \E w \in Workers :
        /\ Answered(w, "analytics_validate")
        /\ resp[w][1].kind = "Forbidden"
        /\ LinkOf(w) # None /\ LinkOf(w)[1].password # None
        /\ ~Matches(LinkOf(w)[1], req[w].password[1])

\* C7: GET /analytics/{short_url} answers in one step and leaves URLs and
\* AccessLogs unchanged, for every code, credential and outcome.
C7_HeaderAnalyticsReadOnly ==
    [][\A w \in Workers :
          Accepts(w, "analytics")
          => /\ pc'[w] = "responded"
             /\ resp'[w][1].kind
                  \in {"Report", "PasswordChallenge", "Forbidden", "NotFound"}
             /\ URLs' = URLs
             /\ AccessLogs' = AccessLogs]_vars
\* Header analytics has answered the Report of a protected row for the
\* matching credential, and nothing is logged.
C7_Witness ==
    \E w \in Workers :
        /\ Answered(w, "analytics")
        /\ resp[w][1].kind = "Report"
        /\ LinkOf(w)[1].password # None
        /\ AccessLogs = <<>>

\* C8 (as stated): when validate, on either form path and with any password,
\* fetches a row with no password set, it answers Forbidden (403) in that step
\* and AccessLogs is unchanged.
C8_Original_NoPasswordForbidden ==
    [][\A w \in Workers :
          ((Accepts(w, "validate") \/ Accepts(w, "analytics_validate"))
             /\ FetchedBy(w) # None
             /\ FetchedBy(w)[1].password = None)
          => /\ pc'[w] = "responded"
             /\ resp'[w] = Some(HTTPException("Forbidden", 403))
             /\ AccessLogs' = AccessLogs]_vars

\* The outcome of GET /analytics/{short_url} by case; emptyIsAbsent says
\* whether an empty X-Password header counts as no credential.
AnalyticsOutcome(url_entry, x_password, emptyIsAbsent) ==
    IF url_entry = None THEN "NotFound"
    ELSE IF url_entry[1].password = None THEN "Report"
    ELSE IF x_password = None \/ (emptyIsAbsent /\ x_password = Some(""))
         THEN "PasswordChallenge"
    ELSE IF Matches(url_entry[1], x_password[1]) THEN "Report"
    ELSE "Forbidden"

\* C9 (as stated): header analytics answers NotFound for an unknown code,
\* Report for an unprotected row whatever the credential, PasswordChallenge for
\* a protected row and no credential, Forbidden for a protected row and a
\* credential that does not match, Report for a protected row and the matching
\* credential.
C9_Original_AnalyticsOutcomes ==
    [][\A w \in Workers :
          Accepts(w, "analytics")
          => resp'[w][1].kind
               = AnalyticsOutcome(FetchedBy(w), req'[w].password, FALSE)]_vars
\* C9 (amended): the same, except that for a protected row an empty credential
\* counts as no credential (PasswordChallenge); Forbidden is the answer to a
\* non-empty credential that does not match.
C9_AnalyticsOutcomes ==
    [][\A w \in Workers :
          Accepts(w, "analytics")
          => resp'[w][1].kind
               = AnalyticsOutcome(FetchedBy(w), req'[w].password, TRUE)]_vars
\* Header analytics has answered Forbidden for a protected row and a non-empty
\* credential that does not match.
C9_Witness ==
    \E w \in Workers :
        /\ Answered(w, "analytics")
        /\ resp[w][1].kind = "Forbidden"
        /\ LinkOf(w)[1].password # None
        /\ req[w].password = Some("p2")

\* C10: under every interleaving of Shorten calls, no two rows of URLs share a
\* short code and stored rows never change; the INSERT of a call whose code is
\* already stored changes nothing, the INSERT of a call whose code is not yet
\* stored appends its row, and either way the call answers the short URL.
C10_ConcurrentShortenUnique ==
    /\ [](\A i, j \in 1..Len(URLs) :
             URLs[i].short_url = URLs[j].short_url => i = j)
    /\ [][/\ Len(URLs') >= Len(URLs)
          /\ SubSeq(URLs', 1, Len(URLs)) = URLs
          /\ \A w \in Workers :
               (pc[w] = "shorten_insert" /\ pc'[w] # pc[w])
               => /\ IF RowsWithCode(req[w].short_url[1]) # {}
                     THEN URLs' = URLs
                     ELSE /\ Len(URLs') = Len(URLs) + 1
                          /\ URLs'[Len(URLs')].short_url = req[w].short_url[1]
                          /\ URLs'[Len(URLs')].original_url = req[w].original_url
                  /\ resp'[w] = Some(Response("ShortUrl", 200, "",
                         short_url_body(req[w].host, req[w].short_url[1])))]_vars
\* Two overlapping Shorten calls for different URLs with the same code have
\* both been answered, and one row is stored.
C10_Witness ==
    /\ Answered(1, "shorten") /\ Answered(2, "shorten")
    /\ req[1].original_url # req[2].original_url
    /\ req[1].short_url = req[2].short_url
    /\ Len(URLs) = 1

\* The access_logs sequence a Report for code c lists in the current state.
ReportLogs(c) == select_logs(AccessLogs, c)

\* C11 (as stated): under every interleaving of logging requests, the
\* access_logs of a Report for any code are in chronological order: accessed_at
\* never decreases along the sequence.
C11_Original_ReportChronological ==
    \A c \in ShortCodes :
        \A i, j \in 1..Len(ReportLogs(c)) :
            i < j => ReportLogs(c)[i].accessed_at <= ReportLogs(c)[j].accessed_at

\* C12 (as stated): every stored row has expires_at > created_at.
C12_Original_ExpiresAfterCreated ==
    \A i \in 1..Len(URLs) : URLs[i].expires_at > URLs[i].created_at

\* C13 (as stated): when Resolve fetches a row whose expires_at equals the
\* current time, it answers Expired (410) in that step, neither Redirect nor
\* PasswordChallenge.
C13_Original_ExpiredAtBoundary ==
    [][\A w \in Workers :
          (Accepts(w, "redirect") /\ FetchedBy(w) # None
             /\ FetchedBy(w)[1].expires_at = now)
          => /\ pc'[w] = "responded"
             /\ resp'[w] = Some(HTTPException("Expired", 410))]_vars

\* The AccessLogs row a Resolve of worker w writes: its code, the time read
\* for the call and the caller's address.
ResolveEntry(w) ==
    [short_url |-> req[w].short_url[1],
     accessed_at |-> local[w].accessed_at,
     ip_address |-> req[w].host]
\* Resolve has answered Redirect to worker w's caller.
ResolveRedirected(w) ==
    Answered(w, "redirect") /\ resp[w][1].kind = "Redirect"

\* C14: Resolve on a stored row without password whose expires_at is after
\* the current time goes on to the INSERT with accessed_at = now; the INSERT
\* appends exactly the row {code, that time, caller's address} and nothing
\* else; the answer that follows is Redirect (307) to the row's original_url
\* and leaves AccessLogs alone. In no state has a caller been answered
\* Redirect while AccessLogs lacks a row with its code and address.
C14_ResolveLogsThenRedirects ==
    /\ [](\A w \in Workers :
            ResolveRedirected(w) =>
                \E i \in 1..Len(AccessLogs) :
                    /\ AccessLogs[i].short_url = req[w].short_url[1]
                    /\ AccessLogs[i].ip_address = req[w].host)
    /\ [][\A w \in Workers :
            /\ (Accepts(w, "redirect") /\ FetchedBy(w) # None
                  /\ FetchedBy(w)[1].password = None
                  /\ now < FetchedBy(w)[1].expires_at)
               => /\ pc'[w] = "redirect_insert"
                  /\ local'[w].accessed_at = now
                  /\ AccessLogs' = AccessLogs
            /\ (pc[w] = "redirect_insert" /\ pc'[w] # pc[w])
               => /\ pc'[w] = "redirect_return"
                  /\ resp'[w] = None
                  /\ AccessLogs' = Append(AccessLogs, ResolveEntry(w))
            /\ (pc[w] = "redirect_return" /\ pc'[w] # pc[w])
               => /\ resp'[w] = Some(Response("Redirect", 307,
                                       LinkOf(w)[1].original_url, None))
                  /\ AccessLogs' = AccessLogs
                  /\ \E i \in 1..Len(AccessLogs) :
                         AccessLogs[i] = ResolveEntry(w)]_vars
\* Resolve on an open, unexpired row has answered Redirect to its original_url
\* and the only AccessLogs row carries its code and the caller's address.
C14_Witness ==
    \E w \in Workers :
        /\ ResolveRedirected(w)
        /\ LinkOf(w)[1].password = None
        /\ now < LinkOf(w)[1].expires_at
        /\ resp[w][1].location = LinkOf(w)[1].original_url
        /\ Len(AccessLogs) = 1
        /\ AccessLogs[1].short_url = req[w].short_url[1]
        /\ AccessLogs[1].ip_address = req[w].host
        /\ AccessLogs[1].accessed_at <= now

\* A direct validate with the correct password has logged its row for code c.
ValidatedBefore(c) ==
    \E i \in 1..Len(AccessLogs) :
        /\ AccessLogs[i].short_url = c
        /\ AccessLogs[i].ip_address = SentinelIp
\* Worker w takes a step of POST /{short_url}/validate.
ValidateStep(w) ==
    \/ Accepts(w, "validate")
    \/ (pc[w] \in {"validate_insert", "validate_return"} /\ pc'[w] # pc[w])

\* C15: no step of direct validate changes the URLs relation, and a Resolve
\* on a protected row whose expires_at is after the current time, accepted
\* when correct-password validations of its code have already been logged,
\* still answers PasswordChallenge in that step and logs nothing.
C15_ValidateNeverUnlocks ==
    [][\A w \in Workers :
          /\ ValidateStep(w) => URLs' = URLs
          /\ (Accepts(w, "redirect") /\ FetchedBy(w) # None
                /\ FetchedBy(w)[1].password # None
                /\ now < FetchedBy(w)[1].expires_at
                /\ ValidatedBefore(req'[w].short_url[1]))
             => /\ pc'[w] = "responded"
                /\ resp'[w] = Some(Response("PasswordChallenge", 200, "", None))
                /\ AccessLogs' = AccessLogs]_vars
\* A correct-password validation of the protected row has been logged and
\* answered, the row is as it was stored, and a Resolve on it has been
\* answered PasswordChallenge.
C15_Witness ==
    /\ URLs = <<stored_row("http://a.example/", None, Some("p1"), 1, 0)>>
    /\ ValidatedBefore(URLs[1].short_url)
    /\ \E v, w \in Workers :
          /\ Answered(v, "validate")
          /\ resp[v][1].kind = "Redirect"
          /\ req[v].short_url[1] = URLs[1].short_url
          /\ Answered(w, "redirect")
          /\ req[w].short_url[1] = URLs[1].short_url
          /\ resp[w][1].kind = "PasswordChallenge"

\* C16: every step leaves every stored row of URLs exactly as it was (rows
\* are only ever appended), and the INSERT step of a Shorten call whose code
\* is already stored leaves URLs unchanged and answers ShortUrl (200) with
\* that code, whatever expiry and password the call computed.
C16_StoredLinkNeverMutated ==
    [][/\ Len(URLs') >= Len(URLs)
       /\ \A i \in 1..Len(URLs) : URLs'[i] = URLs[i]
       /\ \A w \in Workers :
            (pc[w] = "shorten_insert" /\ pc'[w] # pc[w] /\ LinkOf(w) # None)
            => /\ URLs' = URLs
               /\ resp'[w] = Some(Response("ShortUrl", 200, "",
                      short_url_body(req[w].host, req[w].short_url[1])))]_vars
\* Two Shorten calls for one code have been answered ShortUrl, one without a
\* password and one with a password; the single stored row has no password.
C16_Witness ==
    \E v, w \in Workers :
        /\ Answered(v, "shorten") /\ Answered(w, "shorten")
        /\ req[v].short_url = req[w].short_url
        /\ req[v].password = None
        /\ Truthy(req[w].password)
        /\ resp[w][1].kind = "ShortUrl"
        /\ Len(URLs) = 1
        /\ URLs[1].short_url = req[w].short_url[1]
        /\ URLs[1].password = None

\* C17: in every state each AccessLogs row carries the short_url of a row
\* stored in URLs; the step that inserts an AccessLogs row finds its code
\* stored in URLs; and across every step AccessLogs before the step is a
\* prefix of AccessLogs after it.
C17_LogReferencesLinkAppendOnly ==
    /\ [](\A i \in 1..Len(AccessLogs) :
              select_url(URLs, AccessLogs[i].short_url) # None)
    /\ [][/\ Len(AccessLogs') >= Len(AccessLogs)
          /\ SubSeq(AccessLogs', 1, Len(AccessLogs)) = AccessLogs
          /\ \A i \in (Len(AccessLogs) + 1)..Len(AccessLogs') :
                select_url(URLs, AccessLogs'[i].short_url) # None]_vars
\* Two rows have been logged, by a Resolve and by a direct validate or by two
\* Resolves, each for a stored code.
C17_Witness ==
    /\ Len(AccessLogs) = 2
    /\ Len(URLs) = 1
    /\ \A i \in 1..2 : AccessLogs[i].short_url = URLs[1].short_url

\* Code c is stored in the relation table with expires_at before time t.
ExpiredAt(table, c, t) ==
    \E i \in 1..Len(table) :
        table[i].short_url = c /\ table[i].expires_at < t

\* C18: Resolve answers Expired exactly for the codes whose stored expires_at
\* is before the current time, and such a code stays such across
\* every step (the clock never goes back and no Shorten call, whatever its
\* expiry_hours, changes the stored expires_at): once Expired, always Expired.
C18_ExpiryPermanent ==
    [][/\ \A c \in ShortCodes : ExpiredAt(URLs, c, now) => ExpiredAt(URLs', c, now')
       /\ \A w \in Workers :
            Accepts(w, "redirect") =>
                (ExpiredAt(URLs, req'[w].short_url[1], now)
                   <=> (/\ pc'[w] = "responded"
                        /\ resp'[w] = Some(HTTPException("Expired", 410))))]_vars
\* The stored row is past its expires_at, a Shorten call for its URL has been
\* answered ShortUrl, the row keeps its expires_at, and a Resolve on the code
\* has been answered Expired.
C18_Witness ==
    /\ URLs = <<stored_row("http://a.example/", Some(-1), None, 1, 0)>>
    /\ \E v, w \in Workers :
          /\ Answered(v, "shorten")
          /\ req[v].original_url = "http://a.example/"
          /\ resp[v][1].kind = "ShortUrl"
          /\ Answered(w, "redirect")
          /\ req[w].short_url[1] = URLs[1].short_url
          /\ resp[w][1].kind = "Expired"

\* Worker w serves a Shorten call for a URL other than the original_url of
\* the row stored under the call's code.
CollidingShorten(w) ==
    /\ req[w].op = "shorten"
    /\ LinkOf(w) # None
    /\ LinkOf(w)[1].original_url # req[w].original_url

\* C19: the INSERT step of a Shorten call for u2, whose code is stored with
\* another original_url u1, leaves URLs unchanged and answers ShortUrl (200)
\* with that code; and a Resolve that answers Redirect answers the stored
\* original_url u1, not the u2 of any colliding Shorten call answered so far.
C19_CollisionAttachesToFirst ==
    [][\A w \in Workers :
          /\ (pc[w] = "shorten_insert" /\ pc'[w] # pc[w] /\ CollidingShorten(w))
             => /\ URLs' = URLs
                /\ resp'[w] = Some(Response("ShortUrl", 200, "",
                       short_url_body(req[w].host,
                                      generate_short_url(req[w].original_url))))
          /\ (pc[w] = "redirect_return" /\ pc'[w] # pc[w])
             => /\ resp'[w][1].kind = "Redirect"
                /\ resp'[w][1].location = LinkOf(w)[1].original_url
                /\ \A v \in Workers :
                      (Answered(v, "shorten") /\ CollidingShorten(v)
                         /\ req[v].short_url = req[w].short_url)
                      => resp'[w][1].location # req[v].original_url]_vars
\* http://a.example/ is stored; a Shorten call for http://b.example/ has been
\* answered with the same code and stored nothing; a Resolve on the code has
\* been answered Redirect to http://a.example/.
C19_Witness ==
    /\ URLs = <<stored_row("http://a.example/", None, None, 1, 0)>>
    /\ \E v, w \in Workers :
          /\ Answered(v, "shorten")
          /\ req[v].original_url = "http://b.example/"
          /\ resp[v][1].body[1].short_url = URLs[1].short_url
          /\ Answered(w, "redirect")
          /\ req[w].short_url[1] = URLs[1].short_url
          /\ resp[w][1].kind = "Redirect"
          /\ resp[w][1].location = "http://a.example/"

\* The row is protected and its expires_at is before time t.
ProtectedExpired(url_entry, t) ==
    /\ url_entry # None
    /\ url_entry[1].password # None
    /\ url_entry[1].expires_at < t

\* C20: on a protected row whose expires_at is before the current time,
\* direct validate with the correct password goes on to its INSERT, which
\* appends one AccessLogs row for the code, and then answers Redirect to the
\* row's original_url; both analytics endpoints with the correct password
\* answer the Report of the row; and in every state an answer Expired is an
\* answer of Resolve.
C20_OnlyResolveTestsExpiry ==
    /\ [](\A w \in Workers :
            (resp[w] # None /\ resp[w][1].kind = "Expired")
               => req[w].op = "redirect")
    /\ [][\A w \in Workers :
            /\ (Accepts(w, "validate") /\ ProtectedExpired(FetchedBy(w), now)
                  /\ Matches(FetchedBy(w)[1], req'[w].password[1]))
               => pc'[w] = "validate_insert"
            /\ (pc[w] = "validate_insert" /\ pc'[w] # pc[w]
                  /\ ProtectedExpired(LinkOf(w), now))
               => /\ Len(AccessLogs') = Len(AccessLogs) + 1
                  /\ AccessLogs'[Len(AccessLogs')].short_url = req[w].short_url[1]
            /\ (pc[w] = "validate_return" /\ pc'[w] # pc[w]
                  /\ ProtectedExpired(LinkOf(w), now))
               => resp'[w] = Some(Response("Redirect", 200,
                                           LinkOf(w)[1].original_url, None))
            /\ ((Accepts(w, "analytics") \/ Accepts(w, "analytics_validate"))
                  /\ ProtectedExpired(FetchedBy(w), now)
                  /\ Truthy(req'[w].password)
                  /\ Matches(FetchedBy(w)[1], req'[w].password[1]))
               => /\ pc'[w] = "responded"
                  /\ resp'[w][1].kind = "Report"
                  /\ resp'[w][1].body[1].expires_at = FetchedBy(w)[1].expires_at
                  /\ resp'[w][1].body[1].original_url
                        = FetchedBy(w)[1].original_url]_vars
\* Direct validate on a protected row past its expires_at has logged its row
\* and answered Redirect to the original_url.
C20_Witness ==
    \E w \in Workers :
        /\ Answered(w, "validate")
        /\ ProtectedExpired(LinkOf(w), now)
        /\ resp[w] = Some(Response("Redirect", 200, LinkOf(w)[1].original_url, None))
        /\ Len(AccessLogs) = 1
        /\ AccessLogs[1].short_url = req[w].short_url[1]
        /\ URLs[1].expires_at < AccessLogs[1].accessed_at
====
